---------------------------- MODULE Spec2Model ----------------------------
(***************************************************************************)
(* A model of the SwartzCodeReview chat participant (src/src/extension.ts, *)
(* lines 1-504): change-set extraction, path-exclusion filtering of a      *)
(* unified diff, checklist aggregation, and the reviewer handler that      *)
(* drives one request against the language model and persists a manifest   *)
(* and a report.                                                           *)
(*                                                                         *)
(* Texts are sequences of one-character strings, so that trimming, slicing *)
(* and the header regular expression are computed character by character.  *)
(***************************************************************************)
EXTENDS Integers, Sequences, FiniteSets, TLC

VARIABLES
    call,       \* pure-function harness: the function applied and its arguments
    ret,        \* pure-function harness: what it returned (NoRet before the call)
    again,      \* pure-function harness: filterDiffByPaths applied to its own output
    pc,             \* reviewer: the await the handler is suspended at
    config,         \* reviewer: checklistFiles and excludePaths as read at line 326
    diffChunk,      \* reviewer: the TextChunk of loadGitDiff, then of line 393
    diffFiles,      \* reviewer: the list of loadDiffFileList
    filteredDiff,   \* reviewer: the result of filterDiffByPaths
    checklistDocs,  \* reviewer: checklistChunks
    htmlContent,    \* reviewer: the fragments received so far, concatenated
    stream,         \* reviewer: what stream.markdown has shown, in order
    events,         \* reviewer: the external operations attempted, in order
    manifests,      \* reviewer: the payloads handed to fs.writeFile at line 385
    requests,       \* reviewer: the messages handed to sendRequest
    reports,        \* reviewer: the contents handed to fs.writeFile at line 485
    outcome         \* reviewer: how the invocation ended ("none" while running)

fnVars == <<call, ret, again>>
rvVars == <<pc, config, diffChunk, diffFiles, filteredDiff, checklistDocs, htmlContent,
            stream, events, manifests, requests, reports, outcome>>
vars == <<call, ret, again, pc, config, diffChunk, diffFiles, filteredDiff,
          checklistDocs, htmlContent, stream, events, manifests, requests, reports,
          outcome>>

(***************************************************************************)
(* Program constants.                                                      *)
(***************************************************************************)
MAX_DIFF_CHARS == 60000
MAX_CHECKLIST_CHARS == 20000

(***************************************************************************)
(* Bounds of the model.                                                    *)
(***************************************************************************)
\* longest short text handed to limitText, over the alphabet {"a", "b"}
MaxLen == 3
\* largest small cap handed to limitText (the program's two caps are added)
MaxCap == 3
\* how far below and above a cap the long inputs' lengths range
MaxOver == 2
\* longest run of whitespace around the git output
MaxPad == 1
\* most lines of a diff text handed to filterDiffByPaths
MaxLines == 3
\* most entries of the excludePaths setting
MaxRules == 1
\* most entries of the checklistFiles setting
MaxRefs == 2
\* most fragments the engine streams in one response
MaxFragments == 2
\* the last millisecond of the clock two invocations read
MaxClock == 2

(***************************************************************************)
(* Characters and texts.                                                   *)
(***************************************************************************)
\* what String.prototype.trim removes (the members the inputs use)
WhiteSpace == {" ", "\t", "\n", "\r"}
\* what "." does not match and "^"/"$" anchor at under the m flag
LineTerminators == {"\n", "\r"}

NoRet == [none |-> TRUE]
None == [none |-> TRUE]

\* the reviewer's variables while no invocation runs
ReviewerIdle ==
    /\ pc = "idle"
    /\ config = None /\ diffChunk = None /\ diffFiles = <<>> /\ filteredDiff = None
    /\ checklistDocs = <<>> /\ htmlContent = <<>>
    /\ stream = <<>> /\ events = <<>> /\ manifests = <<>> /\ requests = <<>>
    /\ reports = <<>> /\ outcome = "none"

\* all sequences over S of length at most n
RECURSIVE SeqsUpTo(_, _)
SeqsUpTo(S, n) ==
    IF n = 0 THEN {<<>>}
    ELSE LET shorter == SeqsUpTo(S, n - 1)
         IN  shorter \cup {Append(s, c) : s \in {t \in shorter : Len(t) = n - 1}, c \in S}

\* a filler text of n characters
Pad(n) == [i \in 1..n |-> "x"]

\* number of leading / trailing whitespace characters of t
LeadingWhiteSpace(t) ==
    Cardinality({i \in 1..Len(t) : \A j \in 1..i : t[j] \in WhiteSpace})
TrailingWhiteSpace(t) ==
    Cardinality({i \in 1..Len(t) : \A j \in i..Len(t) : t[j] \in WhiteSpace})

\* String.prototype.trim
Trim(t) ==
    IF LeadingWhiteSpace(t) = Len(t) THEN <<>>
    ELSE SubSeq(t, LeadingWhiteSpace(t) + 1, Len(t) - TrailingWhiteSpace(t))

IsPrefix(p, t) == Len(p) <= Len(t) /\ p = SubSeq(t, 1, Len(p))

(***************************************************************************)
(* limitText: src/src/extension.ts:97-102.                                 *)
(***************************************************************************)
limitText_SliceOffByOne(input, limit) ==
    IF Len(input) < limit
    THEN [text |-> input, truncated |-> FALSE]
    ELSE [text |-> SubSeq(input, 1, limit), truncated |-> TRUE]

limitText(input, limit) ==
    IF Len(input) <= limit
    THEN [text |-> input, truncated |-> FALSE]
    ELSE [text |-> SubSeq(input, 1, limit), truncated |-> TRUE]

(***************************************************************************)
(* loadGitDiff: src/src/extension.ts:251-266.  execAsync either resolves   *)
(* with the command's stdout or rejects with a message; a rejection is     *)
(* rethrown with the message behind a fixed prefix.                        *)
(***************************************************************************)
loadGitDiff_LimitBeforeTrim(exec) ==
    IF exec.fails
    THEN [ok |-> FALSE, error |-> [prefix |-> "gitDiff", message |-> exec.message]]
    ELSE LET chunk == limitText(exec.stdout, MAX_DIFF_CHARS)
         IN  IF Trim(chunk.text) = <<>>
             THEN [ok |-> TRUE, chunk |-> [text |-> <<>>, truncated |-> FALSE]]
             ELSE [ok |-> TRUE,
                   chunk |-> [text |-> Trim(chunk.text), truncated |-> chunk.truncated]]

loadGitDiff(exec) ==
    IF exec.fails
    THEN [ok |-> FALSE, error |-> [prefix |-> "gitDiff", message |-> exec.message]]
    ELSE LET diff == Trim(exec.stdout)
         IN  IF diff = <<>>
             THEN [ok |-> TRUE, chunk |-> [text |-> <<>>, truncated |-> FALSE]]
             ELSE [ok |-> TRUE, chunk |-> limitText(diff, MAX_DIFF_CHARS)]

(***************************************************************************)
(* Path helpers.  A path is a text.                                        *)
(***************************************************************************)
Range(s) == {s[i] : i \in 1..Len(s)}

StartsWith(s, p) == Len(p) <= Len(s) /\ SubSeq(s, 1, Len(p)) = p

\* Set.prototype.add on an insertion-ordered set
SetAdd(xs, x) == IF x \in Range(xs) THEN xs ELSE Append(xs, x)

\* Array.from(new Set(xs)): the first occurrence of each element, in order
RECURSIVE Dedupe(_)
Dedupe(xs) ==
    IF xs = <<>> THEN <<>>
    ELSE SetAdd(Dedupe(SubSeq(xs, 1, Len(xs) - 1)), xs[Len(xs)])

\* s.replace(/\\/g, '/')
BackslashesToSlashes(s) ==
    [i \in 1..Len(s) |-> IF s[i] = "\\" THEN "/" ELSE s[i]]

\* number of leading / trailing "/" of s from position from on
LeadingSlashes(s, from) ==
    Cardinality({i \in from..Len(s) : \A j \in from..i : s[j] = "/"})
TrailingSlashes(s) ==
    Cardinality({i \in 1..Len(s) : \A j \in i..Len(s) : s[j] = "/"})

\* s.replace(/^\.\/+/, ''): one leading "." with the slashes after it, once
StripDotSlashes(s) ==
    IF Len(s) >= 2 /\ s[1] = "." /\ s[2] = "/"
    THEN SubSeq(s, 2 + LeadingSlashes(s, 2), Len(s))
    ELSE s

\* s.replace(/^\/+/, '') and s.replace(/\/+$/, '')
StripLeadingSlashes(s) == SubSeq(s, 1 + LeadingSlashes(s, 1), Len(s))
StripTrailingSlashes(s) == SubSeq(s, 1, Len(s) - TrailingSlashes(s))

\* path.replace(/\\/g, '/').replace(/^\.\/+/, ''), as lines 138, 169, 199, 278
NormalizeFilePath(s) == StripDotSlashes(BackslashesToSlashes(s))

\* path.isAbsolute (POSIX)
isAbsolute(p) == Len(p) >= 1 /\ p[1] = "/"

\* the segments of a path between its slashes, empty ones dropped
RECURSIVE SplitPath(_)
SplitPath(s) ==
    IF s = <<>> THEN <<>>
    ELSE LET k == 1 + Cardinality({i \in 1..Len(s) : \A j \in 1..i : s[j] # "/"})
             head == SubSeq(s, 1, k - 1)
         IN  (IF head = <<>> THEN <<>> ELSE <<head>>)
                 \o SplitPath(SubSeq(s, k + 1, Len(s)))

RECURSIVE JoinPath(_)
JoinPath(segs) ==
    IF segs = <<>> THEN <<>>
    ELSE IF Len(segs) = 1 THEN segs[1]
    ELSE segs[1] \o <<"/">> \o JoinPath(Tail(segs))

\* path.relative(from, to) (POSIX) on absolute paths without "." or ".." parts
pathRelative(from, to) ==
    LET f == SplitPath(from)
        t == SplitPath(to)
        common == Cardinality({i \in 1..Len(f) :
                                  i <= Len(t) /\ \A j \in 1..i : f[j] = t[j]})
    IN  JoinPath([i \in 1..(Len(f) - common) |-> <<".", ".">>]
                     \o SubSeq(t, common + 1, Len(t)))

(***************************************************************************)
(* normalizeRelativePath, buildExclusionList, shouldExcludeFile:           *)
(* src/src/extension.ts:104-145.  undefined is the empty text, which the   *)
(* Boolean filter of buildExclusionList drops.                             *)
(***************************************************************************)
normalizeRelativePath(workspacePath, inputPath) ==
    LET trimmed == Trim(inputPath)
        relative == IF isAbsolute(trimmed)
                    THEN pathRelative(workspacePath, trimmed)
                    ELSE StripDotSlashes(trimmed)
    IN  IF trimmed = <<>> THEN <<>>
        ELSE StripTrailingSlashes(StripLeadingSlashes(
                 StripDotSlashes(BackslashesToSlashes(relative))))

buildExclusionList(workspacePath, paths) ==
    Dedupe(SelectSeq([i \in 1..Len(paths) |->
                         normalizeRelativePath(workspacePath, paths[i])],
                     LAMBDA item : item # <<>>))

shouldExcludeFile_PrefixWithoutSlash(filePath, exclusions) ==
    IF Len(exclusions) = 0 THEN FALSE
    ELSE LET normalized == NormalizeFilePath(filePath)
         IN  \E k \in 1..Len(exclusions) :
                 \/ normalized = exclusions[k]
                 \/ StartsWith(normalized, exclusions[k])

shouldExcludeFile(filePath, exclusions) ==
    IF Len(exclusions) = 0 THEN FALSE
    ELSE LET normalized == NormalizeFilePath(filePath)
         IN  \E k \in 1..Len(exclusions) :
                 \/ normalized = exclusions[k]
                 \/ StartsWith(normalized, exclusions[k] \o <<"/">>)

(***************************************************************************)
(* The file-header regular expression /^diff --git a\/(.+) b\/(.+)$/gm of  *)
(* filterDiffByPaths (src/src/extension.ts:154-159).  A match starts at a  *)
(* line start and ends at that line's end, so the matches are the lines    *)
(* that match, in order.                                                   *)
(***************************************************************************)
HeaderPrefix == <<"d", "i", "f", "f", " ", "-", "-", "g", "i", "t", " ", "a", "/">>
DestSeparator == <<" ", "b", "/">>

\* where "^" matches under the m flag
LineStarts(t) == {i \in 1..Len(t) : i = 1 \/ t[i - 1] \in LineTerminators}

\* the last character of the line that starts at i (i - 1 for an empty line)
LineEnd(t, i) ==
    CHOOSE k \in (i - 1)..Len(t) :
        /\ k = Len(t) \/ t[k + 1] \in LineTerminators
        /\ \A j \in i..k : t[j] \notin LineTerminators

\* the positions of " b/" that split the line at i into two non-empty groups
HeaderSplits(t, i) ==
    IF i + Len(HeaderPrefix) - 1 > Len(t)
           \/ SubSeq(t, i, i + Len(HeaderPrefix) - 1) # HeaderPrefix
    THEN {}
    ELSE {k \in (i + Len(HeaderPrefix) + 1)..(LineEnd(t, i) - Len(DestSeparator)) :
             SubSeq(t, k, k + Len(DestSeparator) - 1) = DestSeparator}

Max(S) == CHOOSE x \in S : \A y \in S : y <= x
Min(S) == CHOOSE x \in S : \A y \in S : x <= y

\* the sorted sequence of a finite set of integers
RECURSIVE Sorted(_)
Sorted(S) == IF S = {} THEN <<>> ELSE <<Min(S)>> \o Sorted(S \ {Min(S)})

\* matches: { index, filePath } of every header, match[2] being what follows
\* the last " b/" of the line (the first group is greedy)
HeaderMatches(diffText) ==
    LET starts == Sorted({i \in LineStarts(diffText) : HeaderSplits(diffText, i) # {}})
    IN  [n \in 1..Len(starts) |->
            [index |-> starts[n],
             filePath |-> SubSeq(diffText,
                                 Max(HeaderSplits(diffText, starts[n])) + Len(DestSeparator),
                                 LineEnd(diffText, starts[n]))]]

\* parts.join(sep)
RECURSIVE Join(_, _)
Join(parts, sep) ==
    IF parts = <<>> THEN <<>>
    ELSE IF Len(parts) = 1 THEN parts[1]
    ELSE parts[1] \o sep \o Join(Tail(parts), sep)

(***************************************************************************)
(* filterDiffByPaths: src/src/extension.ts:147-219.  Sets are kept as      *)
(* insertion-ordered sequences without repetition, as Array.from(set)      *)
(* returns them; positions are 1-based.                                    *)
(***************************************************************************)
\* lines 164-171: the name-only list, trimmed, blanks dropped, normalized
NormalizedKnownFiles(knownAllFiles) ==
    Dedupe(LET kept == SelectSeq([i \in 1..Len(knownAllFiles) |-> Trim(knownAllFiles[i])],
                                 LAMBDA file : file # <<>>)
           IN  [i \in 1..Len(kept) |-> NormalizeFilePath(kept[i])])

\* lines 174-180: the name-only list classified
ClassifyKnownFiles(known, exclusions) ==
    [filteredParts |-> <<>>,
     excludedFiles |-> SelectSeq(known, LAMBDA f : shouldExcludeFile(f, exclusions)),
     includedFiles |-> SelectSeq(known, LAMBDA f : ~shouldExcludeFile(f, exclusions)),
     allFiles |-> known]

\* lines 195-209: one turn of the loop over the headers
\* a loop whose slices stop one character before the next header
SegmentStep_EndsEarly(acc, diffText, matches, i, exclusions) ==
    LET start == matches[i].index
        end == IF i + 1 <= Len(matches) THEN matches[i + 1].index - 1
               ELSE Len(diffText) + 1
        chunk == SubSeq(diffText, start, end - 1)
        filePath == NormalizeFilePath(matches[i].filePath)
    IN  IF shouldExcludeFile(filePath, exclusions)
        THEN [acc EXCEPT !.allFiles = SetAdd(@, filePath),
                         !.excludedFiles = SetAdd(@, filePath)]
        ELSE [acc EXCEPT !.allFiles = SetAdd(@, filePath),
                         !.includedFiles = SetAdd(@, filePath),
                         !.filteredParts = Append(@, chunk)]

SegmentStep(acc, diffText, matches, i, exclusions) ==
    LET start == matches[i].index
        end == IF i + 1 <= Len(matches) THEN matches[i + 1].index ELSE Len(diffText) + 1
        chunk == SubSeq(diffText, start, end - 1)
        filePath == NormalizeFilePath(matches[i].filePath)
    IN  IF shouldExcludeFile(filePath, exclusions)
        THEN [acc EXCEPT !.allFiles = SetAdd(@, filePath),
                         !.excludedFiles = SetAdd(@, filePath)]
        ELSE [acc EXCEPT !.allFiles = SetAdd(@, filePath),
                         !.includedFiles = SetAdd(@, filePath),
                         !.filteredParts = Append(@, chunk)]

RECURSIVE SegmentLoop(_, _, _, _, _)
SegmentLoop(acc, diffText, matches, i, exclusions) ==
    IF i > Len(matches) THEN acc
    ELSE SegmentLoop(SegmentStep(acc, diffText, matches, i, exclusions),
                     diffText, matches, i + 1, exclusions)

\* lines 186 and 216: Array.from(includedFiles.size ? includedFiles : allFiles)
IncludedOrAll(includedFiles, allFiles) ==
    IF Len(includedFiles) > 0 THEN includedFiles ELSE allFiles

\* line 211
outputText_AlwaysRebuilt(exclusions, filteredParts, diffText) ==
    Join(filteredParts, <<",">>)

outputText_JoinWithNewline(exclusions, filteredParts, diffText) ==
    IF Len(exclusions) > 0 THEN Join(filteredParts, <<"\n">>) ELSE diffText

outputText(exclusions, filteredParts, diffText) ==
    IF Len(exclusions) > 0 THEN Join(filteredParts, <<>>) ELSE diffText

\* a filter that starts its output at the first header
preambleParts_Dropped(diffText, matches) == <<>>

\* lines 191-193: what stands before the first header opens filteredParts
preambleParts(diffText, matches) ==
    IF matches[1].index > 1
    THEN <<SubSeq(diffText, 1, matches[1].index - 1)>>
    ELSE <<>>

filterDiffByPaths(diffText, workspacePath, rawExclusions, knownAllFiles) ==
    LET exclusions == buildExclusionList(workspacePath, rawExclusions)
        matches == HeaderMatches(diffText)
        seeded == ClassifyKnownFiles(NormalizedKnownFiles(knownAllFiles), exclusions)
    IN  IF Len(matches) = 0
        THEN [text |-> diffText,
              excludedFiles |-> seeded.excludedFiles,
              includedFiles |-> IncludedOrAll(seeded.includedFiles, seeded.allFiles),
              allFiles |-> seeded.allFiles]
        ELSE LET acc == SegmentLoop([seeded EXCEPT
                                        !.filteredParts = preambleParts(diffText, matches)],
                                    diffText, matches, 1, exclusions)
             IN  [text |-> outputText(exclusions, acc.filteredParts, diffText),
                  excludedFiles |-> acc.excludedFiles,
                  includedFiles |-> IncludedOrAll(acc.includedFiles, acc.allFiles),
                  allFiles |-> acc.allFiles]

(***************************************************************************)
(* loadChecklistFiles (src/src/extension.ts:226-249) and the choice        *)
(* between the configured checklists and the built-in one (lines 404-420). *)
(* disk maps the paths of the readable files to their content; reading any *)
(* other path throws, which the loop catches and logs.                     *)
(***************************************************************************)
\* the length of the DEFAULT_CHECKLIST template literal (lines 88-95)
DefaultChecklistLength == 140
\* its content, which the program never inspects, is filler of that length
DEFAULT_CHECKLIST == [i \in 1..DefaultChecklistLength |-> "c"]
\* the label of the built-in checklist (line 416), one opaque token
DefaultLabel == <<"default-checklist-label">>

\* path.join(a, b): the segments of both, "." segments dropped
pathJoin(a, b) ==
    LET segs == SelectSeq(SplitPath(a) \o SplitPath(b), LAMBDA sg : sg # <<".">>)
    IN  (IF isAbsolute(a) THEN <<"/">> ELSE <<>>) \o JoinPath(segs)

\* lines 230-235: the path read for a reference (<<>>: the entry is skipped)
ResolveChecklistPath(workspacePath, rawPath) ==
    LET filePath == Trim(rawPath)
    IN  IF filePath = <<>> THEN <<>>
        ELSE IF isAbsolute(filePath) THEN filePath
        ELSE pathJoin(workspacePath, filePath)

RECURSIVE loadChecklistFiles_StopAtFirstFailure(_, _, _)
loadChecklistFiles_StopAtFirstFailure(workspacePath, files, disk) ==
    IF files = <<>> THEN <<>>
    ELSE LET resolved == ResolveChecklistPath(workspacePath, Head(files))
         IN  IF resolved = <<>> \/ resolved \notin DOMAIN disk THEN <<>>
             ELSE <<[label |-> Trim(Head(files)),
                     content |-> limitText(disk[resolved], MAX_CHECKLIST_CHARS)]>>
                      \o loadChecklistFiles_StopAtFirstFailure(workspacePath,
                                                               Tail(files), disk)

RECURSIVE loadChecklistFiles(_, _, _)
loadChecklistFiles(workspacePath, files, disk) ==
    IF files = <<>> THEN <<>>
    ELSE LET resolved == ResolveChecklistPath(workspacePath, Head(files))
             rest == loadChecklistFiles(workspacePath, Tail(files), disk)
         IN  IF resolved = <<>> \/ resolved \notin DOMAIN disk THEN rest
             ELSE <<[label |-> Trim(Head(files)),
                     content |-> limitText(disk[resolved], MAX_CHECKLIST_CHARS)]>> \o rest

\* lines 404-420
checklistChunks(workspacePath, checklistFiles, disk) ==
    IF Len(checklistFiles) > 0
    THEN loadChecklistFiles(workspacePath, checklistFiles, disk)
    ELSE <<[label |-> DefaultLabel,
            content |-> limitText(DEFAULT_CHECKLIST, MAX_CHECKLIST_CHARS)]>>

(***************************************************************************)
(* loadDiffFileList: src/src/extension.ts:268-283.                         *)
(***************************************************************************)
\* s.split(sep) for a one-character separator
RECURSIVE Split(_, _)
Split(s, sep) ==
    LET k == 1 + Cardinality({i \in 1..Len(s) : \A j \in 1..i : s[j] # sep})
    IN  IF k > Len(s) THEN <<s>>
        ELSE <<SubSeq(s, 1, k - 1)>> \o Split(SubSeq(s, k + 1, Len(s)), sep)

\* a loader that answers a failed command with an empty list
loadDiffFileList_EmptyOnFailure(exec) ==
    IF exec.fails
    THEN [ok |-> TRUE, files |-> <<>>]
    ELSE LET lines == Split(exec.stdout, "\n")
             kept == SelectSeq([i \in 1..Len(lines) |-> Trim(lines[i])],
                               LAMBDA line : line # <<>>)
         IN  [ok |-> TRUE, files |-> [i \in 1..Len(kept) |-> NormalizeFilePath(kept[i])]]

loadDiffFileList(exec) ==
    IF exec.fails
    THEN [ok |-> FALSE, error |-> [prefix |-> "gitDiffFileList", message |-> exec.message]]
    ELSE LET lines == Split(exec.stdout, "\n")
             kept == SelectSeq([i \in 1..Len(lines) |-> Trim(lines[i])],
                               LAMBDA line : line # <<>>)
         IN  [ok |-> TRUE, files |-> [i \in 1..Len(kept) |-> NormalizeFilePath(kept[i])]]

(***************************************************************************)
(* diffContainsCppChanges: src/src/extension.ts:285-301.                   *)
(***************************************************************************)
CPP_FILE_EXTENSIONS ==
    {<<".", "c", "c">>, <<".", "c", "p", "p">>, <<".", "c", "x", "x">>, <<".", "h">>,
     <<".", "h", "h">>, <<".", "h", "p", "p">>, <<".", "h", "x", "x">>}

\* the literal of /^\+\+\+ b\/(.+)$/gm
NewFilePrefix == <<"+", "+", "+", " ", "b", "/">>

EndsWith(s, e) == Len(e) <= Len(s) /\ SubSeq(s, Len(s) - Len(e) + 1, Len(s)) = e

diffContainsCppChanges(diffText) ==
    \E i \in LineStarts(diffText) :
        LET end == LineEnd(diffText, i)
            line == SubSeq(diffText, i, end)
            filePath == Split(SubSeq(line, Len(NewFilePrefix) + 1, Len(line)), "\t")[1]
        IN  /\ StartsWith(line, NewFilePrefix)
            /\ Len(line) > Len(NewFilePrefix)
            /\ filePath # <<"/", "d", "e", "v", "/", "n", "u", "l", "l">>
            /\ \E ext \in CPP_FILE_EXTENSIONS : EndsWith(filePath, ext)

(***************************************************************************)
(* The sections of the review message: src/src/extension.ts:422-465.  A    *)
(* fixed string is a tag; the sections that carry data carry it.           *)
(***************************************************************************)
RECURSIVE ChecklistSections(_)
ChecklistSections(chunks) ==
    IF chunks = <<>> THEN <<>>
    ELSE <<[s |-> "checklistLabel", label |-> Head(chunks).label],
           [s |-> "fenceMarkdown"],
           [s |-> "checklist", text |-> Head(chunks).content.text],
           [s |-> "fenceEnd"]>>
             \o (IF Head(chunks).content.truncated
                 THEN <<[s |-> "checklistTruncated"]>> ELSE <<>>)
             \o ChecklistSections(Tail(chunks))

\* a message that carries the C++ guidelines after the diff and the
\* checklists
BuildSections_GuidelinesLast(chunk, chunks) ==
    <<[s |-> "role"], [s |-> "task"]>>
        \o <<[s |-> "diffIntro"], [s |-> "fenceDiff"],
             [s |-> "diff", text |-> chunk.text], [s |-> "fenceEnd"]>>
        \o (IF Len(chunks) > 0
            THEN <<[s |-> "checklistIntro"]>> \o ChecklistSections(chunks) ELSE <<>>)
        \o (IF diffContainsCppChanges(chunk.text)
            THEN <<[s |-> "cppIntro"], [s |-> "CPP_REVIEW_GUIDELINES"]>> ELSE <<>>)
        \o (IF chunk.truncated THEN <<[s |-> "diffTruncated"]>> ELSE <<>>)
        \o <<[s |-> "outputFormat"], [s |-> "example"], [s |-> "fenceHtml"],
             [s |-> "tableOpen"], [s |-> "tableHeader"], [s |-> "tableRow"],
             [s |-> "tableClose"], [s |-> "fenceEnd"], [s |-> "noIssues"]>>

BuildSections(chunk, chunks) ==
    <<[s |-> "role"], [s |-> "task"]>>
        \o (IF diffContainsCppChanges(chunk.text)
            THEN <<[s |-> "cppIntro"], [s |-> "CPP_REVIEW_GUIDELINES"]>> ELSE <<>>)
        \o <<[s |-> "diffIntro"], [s |-> "fenceDiff"],
             [s |-> "diff", text |-> chunk.text], [s |-> "fenceEnd"]>>
        \o (IF Len(chunks) > 0
            THEN <<[s |-> "checklistIntro"]>> \o ChecklistSections(chunks) ELSE <<>>)
        \o (IF chunk.truncated THEN <<[s |-> "diffTruncated"]>> ELSE <<>>)
        \o <<[s |-> "outputFormat"], [s |-> "example"], [s |-> "fenceHtml"],
             [s |-> "tableOpen"], [s |-> "tableHeader"], [s |-> "tableRow"],
             [s |-> "tableClose"], [s |-> "fenceEnd"], [s |-> "noIssues"]>>

\* lines 467-474: the request handed to request.model.sendRequest
ReviewRequest(chunk, chunks) ==
    [role |-> "User", sections |-> BuildSections(chunk, chunks),
     justification |-> TRUE]

\* line 393: the prepared diff is the filtered text with the extraction's flag
preparedDiff_Unfiltered(chunk, filtered) == chunk

preparedDiff(chunk, filtered) ==
    [text |-> filtered.text, truncated |-> chunk.truncated]

\* a payload that lists every changed file as included
summaryPayload_IncludedAsAll(filtered) ==
    [allFiles |-> filtered.allFiles,
     includedFiles |-> filtered.allFiles,
     excludedFiles |-> filtered.excludedFiles]

\* lines 373-379: the manifest payload (timestamp and workspace aside)
summaryPayload(filtered) ==
    [allFiles |-> filtered.allFiles,
     includedFiles |-> filtered.includedFiles,
     excludedFiles |-> filtered.excludedFiles]

\* lines 353-371: the overview shown before the manifest is written
summaryMarkdown(filtered) ==
    IF Len(filtered.allFiles) > 0
    THEN [msg |-> "overview", total |-> Len(filtered.allFiles),
          included |-> filtered.includedFiles, excluded |-> filtered.excludedFiles]
    ELSE [msg |-> "noFileList"]

(***************************************************************************)
(* Specification SpecLimit: limitText applied to bounded inputs.           *)
(***************************************************************************)
LimitInputs ==
    SeqsUpTo({"a", "b"}, MaxLen)
        \cup {Pad(n) : n \in (MAX_CHECKLIST_CHARS - MaxOver)..(MAX_CHECKLIST_CHARS + MaxOver)}
LimitCaps == (0..MaxCap) \cup {MAX_CHECKLIST_CHARS}

InitLimit ==
    /\ call \in [fn : {"limitText"}, input : LimitInputs, limit : LimitCaps]
    /\ ret = NoRet
    /\ again = NoRet
    /\ ReviewerIdle

CallLimitText ==
    /\ call.fn = "limitText"
    /\ ret = NoRet
    /\ ret' = limitText(call.input, call.limit)
    /\ UNCHANGED <<call, again>>
    /\ UNCHANGED rvVars

NextLimit == CallLimitText
SpecLimit == InitLimit /\ [][NextLimit]_vars

(***************************************************************************)
(* Specification SpecExtract: loadGitDiff applied to bounded git outputs.  *)
(***************************************************************************)
WhiteSpaceRuns == SeqsUpTo({" ", "\n"}, MaxPad)
BodyLengths ==
    (0..MaxPad) \cup ((MAX_DIFF_CHARS - MaxOver)..(MAX_DIFF_CHARS + MaxOver))
RawOutputs ==
    {lead \o Pad(n) \o trail :
        lead \in WhiteSpaceRuns, trail \in WhiteSpaceRuns, n \in BodyLengths}
ExecMessage == "not a git repository"
GitExecs ==
    {[fails |-> FALSE, stdout |-> raw, message |-> ""] : raw \in RawOutputs}
        \cup {[fails |-> TRUE, stdout |-> <<>>, message |-> ExecMessage]}

InitExtract ==
    /\ call \in {[fn |-> "loadGitDiff", exec |-> e] : e \in GitExecs}
    /\ ret = NoRet
    /\ again = NoRet
    /\ ReviewerIdle

CallLoadGitDiff ==
    /\ call.fn = "loadGitDiff"
    /\ ret = NoRet
    /\ ret' = loadGitDiff(call.exec)
    /\ UNCHANGED <<call, again>>
    /\ UNCHANGED rvVars

NextExtract == CallLoadGitDiff
SpecExtract == InitExtract /\ [][NextExtract]_vars

(***************************************************************************)
(* Specification SpecFilter: filterDiffByPaths applied to bounded diffs,   *)
(* exclusion settings and name-only lists, then to its own output.         *)
(***************************************************************************)
WorkspacePath == <<"/", "w">>

\* file paths: v/l lies under directory v, vx only shares its first letter
PathVL == <<"v", "/", "l">>
PathM == <<"m">>
PathVX == <<"v", "x">>
PathSB == <<"s", " ", "b", "/", "y">>

\* the header line git writes for a file (old path, new path)
DiffHeader(a, b) == HeaderPrefix \o a \o DestSeparator \o b

\* the lines a diff text is made of: headers (one a rename into v, one of a
\* path holding " b/"), a hunk line, and a header that does not start its line
DiffLines ==
    {DiffHeader(PathM, PathM), DiffHeader(PathVX, PathVX),
     DiffHeader(PathM, PathVL), DiffHeader(PathSB, PathSB),
     <<"+", "x">>, <<" ">> \o DiffHeader(PathM, PathM)}

DiffTexts == {Join(ls, <<"\n">>) : ls \in SeqsUpTo(DiffLines, MaxLines)}

\* entries of the excludePaths setting: decorated (normalized to v), absolute
\* (normalized to m), blank (dropped)
RawRules ==
    {<<" ", ".", "/", "v", "/">>, WorkspacePath \o <<"/">> \o PathM, <<" ">>}
RuleLists == SeqsUpTo(RawRules, MaxRules)

\* outputs of the name-only command, as loadDiffFileList may return them
KnownFileLists == {<<>>, <<PathVX, PathVL, PathM>>}

InitFilter ==
    /\ call \in [fn : {"filterDiffByPaths"}, diffText : DiffTexts,
                 rawExclusions : RuleLists, knownAllFiles : KnownFileLists]
    /\ ret = NoRet
    /\ again = NoRet
    /\ ReviewerIdle

CallFilterDiffByPaths ==
    /\ call.fn = "filterDiffByPaths"
    /\ ret = NoRet
    /\ ret' = filterDiffByPaths(call.diffText, WorkspacePath,
                                call.rawExclusions, call.knownAllFiles)
    /\ UNCHANGED <<call, again>>
    /\ UNCHANGED rvVars

CallFilterAgain ==
    /\ call.fn = "filterDiffByPaths"
    /\ ret # NoRet
    /\ again = NoRet
    /\ again' = filterDiffByPaths(ret.text, WorkspacePath,
                                  call.rawExclusions, call.knownAllFiles)
    /\ UNCHANGED <<call, ret>>
    /\ UNCHANGED rvVars

NextFilter == CallFilterDiffByPaths \/ CallFilterAgain
SpecFilter == InitFilter /\ [][NextFilter]_vars

(***************************************************************************)
(* Specification SpecChecklist: the checklist aggregation applied to       *)
(* bounded checklistFiles settings and disks.                              *)
(***************************************************************************)
FileA == WorkspacePath \o <<"/", "a">>
FileB == WorkspacePath \o <<"/", "b">>

\* file a, when readable, is short; file b, when readable, is about as long
\* as the checklist cap
Disks ==
    {da @@ db :
        da \in {<<>>} \cup {(FileA :> <<"c", "1">>)},
        db \in {<<>>} \cup {(FileB :> Pad(n)) :
                    n \in (MAX_CHECKLIST_CHARS - MaxOver)..(MAX_CHECKLIST_CHARS + MaxOver)}}

\* entries of the checklistFiles setting: relative, padded with blanks,
\* relative to a long file, absolute, blank, missing from the disk
References == {<<"a">>, <<" ", "a", " ">>, <<"b">>, FileB, <<" ">>, <<"z">>}
ReferenceLists == SeqsUpTo(References, MaxRefs)

InitChecklist ==
    /\ call \in [fn : {"checklistChunks"}, checklistFiles : ReferenceLists, disk : Disks]
    /\ ret = NoRet
    /\ again = NoRet
    /\ ReviewerIdle

CallChecklistChunks ==
    /\ call.fn = "checklistChunks"
    /\ ret = NoRet
    /\ ret' = [checklists |-> checklistChunks(WorkspacePath, call.checklistFiles, call.disk)]
    /\ UNCHANGED <<call, again>>
    /\ UNCHANGED rvVars

NextChecklist == CallChecklistChunks
SpecChecklist == InitChecklist /\ [][NextChecklist]_vars

(***************************************************************************)
(* Specification SpecNames: the artifact file names of two invocations of  *)
(* the handler in one extension host (src/src/extension.ts:380-385 and     *)
(* 481-485).  Each invocation reads the millisecond clock when it names    *)
(* its manifest and again when it names its report; the clock moves on     *)
(* between any two steps, or does not.                                     *)
(***************************************************************************)
Invocations == {1, 2}
NotYet == 0 - 1

\* a name that carries the second, not the millisecond
manifestFileName_BySecond(now) ==
    [dir |-> <<"tmpdir">>,
     name |-> <<"swartz-code-review-files-", now \div 2, ".json">>]

\* lines 380-383: path.join(os.tmpdir(), `swartz-code-review-files-${Date.now()}.json`)
manifestFileName(now) ==
    [dir |-> <<"tmpdir">>,
     name |-> <<"swartz-code-review-files-", now, ".json">>]

\* lines 481-482: path.join(workspace, `swartz-code-review-report-${Date.now()}.html`)
reportFileName(workspacePath, now) ==
    [dir |-> workspacePath,
     name |-> <<"swartz-code-review-report-", now, ".html">>]

InitNames ==
    /\ call = [fn |-> "fileNames", now |-> 0,
               at |-> [i \in Invocations |-> "start"],
               manifestAt |-> [i \in Invocations |-> NotYet],
               reportAt |-> [i \in Invocations |-> NotYet]]
    /\ ret = [manifests |-> [i \in Invocations |-> <<>>],
              reports |-> [i \in Invocations |-> <<>>]]
    /\ again = NoRet
    /\ ReviewerIdle

\* Date.now() has moved to the next millisecond
ClockTick ==
    /\ call.fn = "fileNames"
    /\ call.now < MaxClock
    /\ call' = [call EXCEPT !.now = @ + 1]
    /\ UNCHANGED <<ret, again>>
    /\ UNCHANGED rvVars

\* lines 380-385: an invocation names and writes its manifest
NameManifest ==
    /\ call.fn = "fileNames"
    /\ \E i \in Invocations :
          /\ call.at[i] = "start"
          /\ call' = [call EXCEPT !.at[i] = "manifest", !.manifestAt[i] = call.now]
          /\ ret' = [ret EXCEPT !.manifests[i] = <<manifestFileName(call.now)>>]
    /\ UNCHANGED again
    /\ UNCHANGED rvVars

\* lines 481-485: the invocation names and writes its report
NameReport ==
    /\ call.fn = "fileNames"
    /\ \E i \in Invocations :
          /\ call.at[i] = "manifest"
          /\ call' = [call EXCEPT !.at[i] = "report", !.reportAt[i] = call.now]
          /\ ret' = [ret EXCEPT !.reports[i] = <<reportFileName(WorkspacePath, call.now)>>]
    /\ UNCHANGED again
    /\ UNCHANGED rvVars

NextNames ==
    \/ ClockTick
    \/ NameManifest
    \/ NameReport

SpecNames == InitNames /\ [][NextNames]_vars

(***************************************************************************)
(* Specification Spec: one invocation of the reviewer handler              *)
(* (src/src/extension.ts:304-498).  An action runs from one await to the   *)
(* next; what the handler awaits settles either way, and the engine's      *)
(* stream delivers fragments, fails or ends.                               *)
(***************************************************************************)
PathKH == <<"k", ".", "h">>

\* the diff git writes for one file: header, new-file line, one hunk line
FileDiff(p) ==
    DiffHeader(p, p) \o <<"\n">> \o NewFilePrefix \o p \o <<"\n", "+", "x">>

\* outputs of `git diff HEAD~1`: none, blank, one file kept, one file under v,
\* both, a C++ header, changes without a header line
ReviewDiffOutputs ==
    {<<>>, <<"\n">>,
     FileDiff(PathM) \o <<"\n">>,
     FileDiff(PathVL) \o <<"\n">>,
     FileDiff(PathVL) \o <<"\n">> \o FileDiff(PathM) \o <<"\n">>,
     FileDiff(PathKH) \o <<"\n">>,
     <<"+", "x", "\n">>}
ReviewDiffExecs ==
    {[fails |-> FALSE, stdout |-> raw, message |-> ""] : raw \in ReviewDiffOutputs}
        \cup {[fails |-> TRUE, stdout |-> <<>>, message |-> ExecMessage]}

\* outputs of `git diff --name-only HEAD~1`
ReviewListOutputs ==
    {<<>>, PathM \o <<"\n">>, PathVL \o <<"\n">> \o PathM \o <<"\n">>}
ReviewListExecs ==
    {[fails |-> FALSE, stdout |-> raw, message |-> ""] : raw \in ReviewListOutputs}
        \cup {[fails |-> TRUE, stdout |-> <<>>, message |-> ExecMessage]}

\* the swartzCodeReview settings
ExcludePathSettings == {<<>>, <<<<" ", ".", "/", "v", "/">>>>, <<<<" ">>>>}
ChecklistFileSettings == {<<>>, <<<<"a">>, <<"z">>>>, <<<<"b">>, <<"a">>>>}
\* the checklist files on disk: a short one and one longer than the cap
ReviewDisk == (FileA :> <<"c", "1">>) @@ (FileB :> Pad(MAX_CHECKLIST_CHARS + 1))

\* what the engine streams, and the text of an engine or file-system error
Fragments == {<<"o">>, <<"k">>}
EngineMessage == "engine error"
WriteMessage == "write error"

Count(seq, x) == Cardinality({i \in 1..Len(seq) : seq[i] = x})

Init ==
    /\ call = [fn |-> "reviewer"]
    /\ ret = NoRet
    /\ again = NoRet
    /\ pc = "start"
    /\ config = None /\ diffChunk = None /\ diffFiles = <<>> /\ filteredDiff = None
    /\ checklistDocs = <<>> /\ htmlContent = <<>>
    /\ stream = <<>> /\ events = <<>> /\ manifests = <<>> /\ requests = <<>>
    /\ reports = <<>> /\ outcome = "none"

\* lines 310-335: no workspace folder ends the invocation; otherwise the
\* settings are read and both git commands are started
Start ==
    /\ pc = "start"
    /\ \E hasWorkspace \in BOOLEAN,
          checklistFiles \in ChecklistFileSettings,
          excludePaths \in ExcludePathSettings :
          IF ~hasWorkspace
          THEN /\ stream' = Append(stream, [msg |-> "openRepositoryFirst"])
               /\ pc' = "done"
               /\ outcome' = "ConfigurationMissing"
               /\ UNCHANGED <<config, events>>
          ELSE /\ config' = [checklistFiles |-> checklistFiles,
                             excludePaths |-> excludePaths]
               /\ events' = events \o <<"gitDiff", "gitDiffNameOnly">>
               /\ pc' = "awaitGit"
               /\ UNCHANGED <<stream, outcome>>
    /\ UNCHANGED <<diffChunk, diffFiles, filteredDiff, checklistDocs, htmlContent,
                   manifests, requests, reports>>
    /\ UNCHANGED fnVars

\* lines 332-385: Promise.all settles.  A rejection is shown and ends the
\* invocation; otherwise the diff is filtered, the overview shown and the
\* manifest write started
GitSettled ==
    /\ pc = "awaitGit"
    /\ \E diffExec \in ReviewDiffExecs, listExec \in ReviewListExecs :
          LET d == loadGitDiff(diffExec)
              l == loadDiffFileList(listExec)
              settled == events \o (IF diffExec.fails THEN <<"gitDiffFailed">> ELSE <<>>)
                                \o (IF listExec.fails THEN <<"gitDiffNameOnlyFailed">>
                                    ELSE <<>>)
          IN  IF ~d.ok \/ ~l.ok
              THEN /\ \E e \in {r.error : r \in {x \in {d, l} : ~x.ok}} :
                          stream' = Append(stream, [msg |-> "error", error |-> e])
                   /\ events' = settled
                   /\ pc' = "done"
                   /\ outcome' = "ExtractionFailure"
                   /\ UNCHANGED <<diffChunk, diffFiles, filteredDiff, manifests>>
              ELSE LET filtered == filterDiffByPaths(d.chunk.text, WorkspacePath,
                                                     config.excludePaths, l.files)
                   IN  /\ diffChunk' = d.chunk
                       /\ diffFiles' = l.files
                       /\ filteredDiff' = filtered
                       /\ stream' = Append(stream, summaryMarkdown(filtered))
                       /\ manifests' = Append(manifests, summaryPayload(filtered))
                       /\ events' = Append(settled, "writeManifest")
                       /\ pc' = "awaitManifest"
                       /\ UNCHANGED outcome
    /\ UNCHANGED <<config, checklistDocs, htmlContent, requests, reports>>
    /\ UNCHANGED fnVars

\* lines 385-420 and, without configured checklists, 422-474: the manifest
\* write settles; an empty prepared diff ends the invocation
ManifestSettled ==
    /\ pc = "awaitManifest"
    /\ \E written \in BOOLEAN :
          LET shown == IF written THEN Append(stream, [msg |-> "manifestSaved"])
                       ELSE stream
              settled == IF written THEN events
                         ELSE Append(events, "writeManifestFailed")
              prepared == preparedDiff(diffChunk, filteredDiff)
          IN  /\ diffChunk' = prepared
              /\ IF Trim(prepared.text) = <<>>
                 THEN /\ stream' = Append(shown,
                                          [msg |-> IF Len(config.excludePaths) > 0
                                                   THEN "allChangesExcluded"
                                                   ELSE "noDiffDetected"])
                      /\ events' = settled
                      /\ pc' = "done"
                      /\ outcome' = "NoContent"
                      /\ UNCHANGED <<checklistDocs, requests>>
                 ELSE IF Len(config.checklistFiles) > 0
                 THEN /\ stream' = Append(shown, [msg |-> "checklistsToLoad",
                                                  files |-> config.checklistFiles])
                      /\ events' = settled
                      /\ pc' = "awaitChecklists"
                      /\ UNCHANGED <<checklistDocs, requests, outcome>>
                 ELSE LET chunks == checklistChunks(WorkspacePath, config.checklistFiles,
                                                    ReviewDisk)
                      IN  /\ stream' = Append(shown, [msg |-> "defaultChecklistLoaded"])
                          /\ checklistDocs' = chunks
                          /\ requests' = Append(requests, ReviewRequest(prepared, chunks))
                          /\ events' = Append(settled, "sendRequest")
                          /\ pc' = "awaitSend"
                          /\ UNCHANGED outcome
    /\ UNCHANGED <<config, diffFiles, filteredDiff, htmlContent, manifests, reports>>
    /\ UNCHANGED fnVars

\* lines 411 and 422-474: every configured checklist has been read (or not);
\* the message is built and the request sent
ChecklistsLoaded ==
    /\ pc = "awaitChecklists"
    /\ LET chunks == checklistChunks(WorkspacePath, config.checklistFiles, ReviewDisk)
           reads == SelectSeq(config.checklistFiles, LAMBDA f : Trim(f) # <<>>)
       IN  /\ checklistDocs' = chunks
           /\ requests' = Append(requests, ReviewRequest(diffChunk, chunks))
           /\ events' = events \o [i \in 1..Len(reads) |-> "readChecklist"]
                               \o <<"sendRequest">>
    /\ pc' = "awaitSend"
    /\ UNCHANGED <<config, diffChunk, diffFiles, filteredDiff, htmlContent, stream,
                   manifests, reports, outcome>>
    /\ UNCHANGED fnVars

\* lines 474-476 and 493-497: sendRequest resolves with a response or rejects
SendSettled ==
    /\ pc = "awaitSend"
    /\ \E accepted \in BOOLEAN :
          IF accepted
          THEN /\ htmlContent' = <<>>
               /\ pc' = "streaming"
               /\ UNCHANGED <<stream, outcome>>
          ELSE /\ stream' = Append(stream, [msg |-> "reviewFailed",
                                            error |-> EngineMessage])
               /\ pc' = "done"
               /\ outcome' = "EngineRequestFailure"
               /\ UNCHANGED htmlContent
    /\ UNCHANGED <<config, diffChunk, diffFiles, filteredDiff, checklistDocs, events,
                   manifests, requests, reports>>
    /\ UNCHANGED fnVars

\* lines 477-479: one fragment of response.text
ReceiveFragment ==
    /\ pc = "streaming"
    /\ Len(htmlContent) < MaxFragments
    /\ \E fragment \in Fragments : htmlContent' = htmlContent \o fragment
    /\ UNCHANGED <<pc, config, diffChunk, diffFiles, filteredDiff, checklistDocs, stream,
                   events, manifests, requests, reports, outcome>>
    /\ UNCHANGED fnVars

\* a handler that sends the request once more when the stream breaks
StreamFails_SendsAgain ==
    /\ pc = "streaming"
    /\ IF Len(requests) < 2
       THEN /\ requests' = Append(requests, requests[1])
            /\ events' = Append(events, "sendRequest")
            /\ pc' = "awaitSend"
            /\ UNCHANGED <<stream, outcome>>
       ELSE /\ stream' = Append(stream, [msg |-> "reviewFailed", error |-> EngineMessage])
            /\ pc' = "done"
            /\ outcome' = "EngineRequestFailure"
            /\ UNCHANGED <<events, requests>>
    /\ UNCHANGED <<config, diffChunk, diffFiles, filteredDiff, checklistDocs, htmlContent,
                   manifests, reports>>
    /\ UNCHANGED fnVars

\* a handler that saves what it has received when the stream breaks
StreamFails_WritesPartial ==
    /\ pc = "streaming"
    /\ stream' = Append(stream, [msg |-> "reviewFailed", error |-> EngineMessage])
    /\ reports' = Append(reports, htmlContent)
    /\ events' = Append(events, "writeReport")
    /\ pc' = "done"
    /\ outcome' = "EngineRequestFailure"
    /\ UNCHANGED <<config, diffChunk, diffFiles, filteredDiff, checklistDocs, htmlContent,
                   manifests, requests>>
    /\ UNCHANGED fnVars

\* lines 477 and 493-497: the stream ends with an error
StreamFails ==
    /\ pc = "streaming"
    /\ stream' = Append(stream, [msg |-> "reviewFailed", error |-> EngineMessage])
    /\ pc' = "done"
    /\ outcome' = "EngineRequestFailure"
    /\ UNCHANGED <<config, diffChunk, diffFiles, filteredDiff, checklistDocs, htmlContent,
                   events, manifests, requests, reports>>
    /\ UNCHANGED fnVars

\* lines 477-485: the stream ends; the report write is started
StreamEnds ==
    /\ pc = "streaming"
    /\ reports' = Append(reports, htmlContent)
    /\ events' = Append(events, "writeReport")
    /\ pc' = "awaitReport"
    /\ UNCHANGED <<config, diffChunk, diffFiles, filteredDiff, checklistDocs, htmlContent,
                   stream, manifests, requests, outcome>>
    /\ UNCHANGED fnVars

\* lines 485-492: the report write settles
ReportSettled ==
    /\ pc = "awaitReport"
    /\ \E written \in BOOLEAN :
          IF written
          THEN /\ stream' = Append(stream, [msg |-> "reportSaved"])
               /\ UNCHANGED events
          ELSE /\ stream' = Append(stream, [msg |-> "reportSaveFailed",
                                            error |-> WriteMessage])
               /\ events' = Append(events, "writeReportFailed")
    /\ pc' = "done"
    /\ outcome' = "Completed"
    /\ UNCHANGED <<config, diffChunk, diffFiles, filteredDiff, checklistDocs, htmlContent,
                   manifests, requests, reports>>
    /\ UNCHANGED fnVars

\* line 308: the chat's cancellation token is signalled while the handler
\* runs; the handler never reads the token, it only hands it to sendRequest
\* (line 474), where the engine may reject the request or end the stream
CancellationRequested ==
    /\ pc # "done"
    /\ "cancellationRequested" \notin Range(events)
    /\ events' = Append(events, "cancellationRequested")
    /\ UNCHANGED <<pc, config, diffChunk, diffFiles, filteredDiff, checklistDocs,
                   htmlContent, stream, manifests, requests, reports, outcome>>
    /\ UNCHANGED fnVars

Next ==
    \/ Start
    \/ CancellationRequested
    \/ GitSettled
    \/ ManifestSettled
    \/ ChecklistsLoaded
    \/ SendSettled
    \/ ReceiveFragment
    \/ StreamFails
    \/ StreamEnds
    \/ ReportSettled

Spec == Init /\ [][Next]_vars

(***************************************************************************)
(* The segments of a diff text (spec 4.2 "segment", lines 154-159 and      *)
(* 195-199 of the source): one per header, from the header to the next     *)
(* header or the end of the text, with its canonical file path.            *)
(***************************************************************************)
Segments(t) ==
    LET matches == HeaderMatches(t)
    IN  [i \in 1..Len(matches) |->
            [filePath |-> NormalizeFilePath(matches[i].filePath),
             text |-> SubSeq(t, matches[i].index,
                             IF i < Len(matches) THEN matches[i + 1].index - 1
                             ELSE Len(t))]]

\* the text before the first header (the whole text when there is none)
Preamble(t) ==
    LET matches == HeaderMatches(t)
    IN  IF Len(matches) = 0 THEN t
        ELSE SubSeq(t, 1, matches[1].index - 1)

\* the normalized, de-duplicated rule set of a call
RulesOf(c) == Range(buildExclusionList(WorkspacePath, c.rawExclusions))

\* the match rule: the path equals a rule or starts with the rule and "/"
MatchesRule(path, rules) ==
    \E r \in rules : path = r \/ StartsWith(path, r \o <<"/">>)

Filtered == call.fn = "filterDiffByPaths" /\ ret # NoRet

(***************************************************************************)
(* C1: the text filterDiffByPaths returns holds no segment whose path      *)
(* matches a rule, and holds every segment whose path matches no rule,     *)
(* verbatim and in the order of the input.                                 *)
(***************************************************************************)
C1_FilterKeepsUnmatchedSegments ==
    Filtered =>
        LET rules == RulesOf(call)
            segsIn == Segments(call.diffText)
            segsOut == Segments(ret.text)
        IN  /\ \A i \in 1..Len(segsOut) : ~MatchesRule(segsOut[i].filePath, rules)
            /\ segsOut = SelectSeq(segsIn, LAMBDA sg : ~MatchesRule(sg.filePath, rules))

\* a diff with a matching and a non-matching segment has been filtered
C1_Witness ==
    /\ Filtered
    /\ \E i, j \in 1..Len(Segments(call.diffText)) :
           /\ MatchesRule(Segments(call.diffText)[i].filePath, RulesOf(call))
           /\ ~MatchesRule(Segments(call.diffText)[j].filePath, RulesOf(call))
    /\ Len(Segments(ret.text)) >= 1

(***************************************************************************)
(* C2 as stated: includedFiles and excludedFiles are disjoint, their union *)
(* is allFiles, and a file is excluded exactly when its path equals a rule *)
(* or starts with a rule and "/", also when every file matches a rule.     *)
(***************************************************************************)
C2_PartitionOfAllFiles ==
    Filtered =>
        /\ Range(ret.includedFiles) \cap Range(ret.excludedFiles) = {}
        /\ Range(ret.includedFiles) \cup Range(ret.excludedFiles) = Range(ret.allFiles)
        /\ \A f \in Range(ret.allFiles) :
               f \in Range(ret.excludedFiles) <=> MatchesRule(f, RulesOf(call))

(***************************************************************************)
(* C3: when the normalized rule set is empty the returned text is the      *)
(* input text, character for character.                                    *)
(***************************************************************************)
C3_EmptyRulesReturnInput ==
    (Filtered /\ RulesOf(call) = {}) => ret.text = call.diffText

\* a non-empty setting that normalizes to no rule, on a diff with a preamble
\* and a header
C3_Witness ==
    /\ Filtered
    /\ Len(call.rawExclusions) > 0 /\ RulesOf(call) = {}
    /\ Len(Segments(call.diffText)) >= 1
    /\ Preamble(call.diffText) # <<>>
    /\ ret.text = call.diffText

(***************************************************************************)
(* C4: filtering the returned text again with the same rules returns it    *)
(* unchanged.                                                              *)
(***************************************************************************)
C4_FilterIdempotent ==
    (call.fn = "filterDiffByPaths" /\ again # NoRet) => again.text = ret.text

\* the first pass removed a segment and kept a preamble and a segment
C4_Witness ==
    /\ call.fn = "filterDiffByPaths" /\ again # NoRet
    /\ ret.text # call.diffText
    /\ Preamble(ret.text) # <<>>
    /\ Len(Segments(ret.text)) >= 1
    /\ again.text = ret.text

(***************************************************************************)
(* C5: limitText returns a prefix of its input no longer than the cap;     *)
(* truncated is true exactly when the input is longer than the cap, and an *)
(* input within the cap is returned unchanged.  With the checklist cap the *)
(* text is at most 20,000 characters long.                                 *)
(***************************************************************************)
C5_LimitText ==
    (call.fn = "limitText" /\ ret # NoRet) =>
        /\ Len(ret.text) <= call.limit
        /\ IsPrefix(ret.text, call.input)
        /\ ret.truncated = (Len(call.input) > call.limit)
        /\ (Len(call.input) <= call.limit => ret.text = call.input)
        /\ (call.limit = MAX_CHECKLIST_CHARS => Len(ret.text) <= 20000)

\* an input one character longer than the checklist cap has been cut to it
C5_Witness ==
    /\ call.fn = "limitText" /\ ret # NoRet
    /\ call.limit = MAX_CHECKLIST_CHARS
    /\ Len(call.input) = MAX_CHECKLIST_CHARS + 1
    /\ ret.truncated /\ Len(ret.text) = MAX_CHECKLIST_CHARS

(***************************************************************************)
(* C6 as stated: whenever the raw output of the diff command is longer     *)
(* than 60,000 characters, the extracted text is the first 60,000          *)
(* characters of the raw output and truncated is true.                     *)
(***************************************************************************)
C6_Original ==
    (call.fn = "loadGitDiff" /\ ret # NoRet /\ ~call.exec.fails
        /\ Len(call.exec.stdout) > MAX_DIFF_CHARS) =>
        /\ ret.ok
        /\ ret.chunk.text = SubSeq(call.exec.stdout, 1, MAX_DIFF_CHARS)
        /\ ret.chunk.truncated

(***************************************************************************)
(* C6 amended: the cap applies to the output after its surrounding         *)
(* whitespace is trimmed.  When the trimmed output is longer than 60,000   *)
(* characters the extracted text is its first 60,000 characters and        *)
(* truncated is true; otherwise the extracted text is the whole trimmed    *)
(* output and truncated is false, however long the raw output was.         *)
(***************************************************************************)
C6_TrimThenCap ==
    (call.fn = "loadGitDiff" /\ ret # NoRet /\ ~call.exec.fails) =>
        LET raw == call.exec.stdout
            lead == LeadingWhiteSpace(raw)
            core == Len(raw) - lead - TrailingWhiteSpace(raw)
        IN  /\ ret.ok
            /\ IF lead < Len(raw) /\ core > MAX_DIFF_CHARS
               THEN /\ ret.chunk.text = SubSeq(raw, lead + 1, lead + 60000)
                    /\ ret.chunk.truncated
               ELSE /\ ret.chunk.text = (IF lead = Len(raw) THEN <<>>
                                         ELSE SubSeq(raw, lead + 1, lead + core))
                    /\ ~ret.chunk.truncated

\* a raw output over the cap only by its surrounding whitespace, and one whose
\* trimmed text is over the cap, have both been extracted
C6_Witness ==
    /\ call.fn = "loadGitDiff" /\ ret # NoRet /\ ~call.exec.fails
    /\ Len(call.exec.stdout) > MAX_DIFF_CHARS
    /\ LeadingWhiteSpace(call.exec.stdout) > 0
    /\ ret.chunk.truncated
    /\ Len(ret.chunk.text) = MAX_DIFF_CHARS

(***************************************************************************)
(* Checklist aggregation as the claims describe it.                        *)
(***************************************************************************)
Aggregated == call.fn = "checklistChunks" /\ ret # NoRet

\* a reference is readable when the path the program reads for it is a file
ReadableReference(r) ==
    ResolveChecklistPath(WorkspacePath, r) \in DOMAIN call.disk

\* the document of a readable reference r under label l
DocumentOf(r, l) ==
    LET content == call.disk[ResolveChecklistPath(WorkspacePath, r)]
    IN  [label |-> l,
         content |-> [text |-> IF Len(content) > 20000
                               THEN SubSeq(content, 1, 20000) ELSE content,
                      truncated |-> Len(content) > 20000]]

BuiltInDocument ==
    [label |-> DefaultLabel, content |-> [text |-> DEFAULT_CHECKLIST, truncated |-> FALSE]]

(***************************************************************************)
(* C7 as stated: an empty reference list gives the one built-in document;  *)
(* a non-empty list gives one document per readable reference, in order,   *)
(* labelled with the reference string, truncated exactly when the content  *)
(* is longer than 20,000 characters; unreadable references give none.      *)
(***************************************************************************)
C7_Original ==
    Aggregated =>
        LET readable == SelectSeq(call.checklistFiles, ReadableReference)
        IN  IF call.checklistFiles = <<>>
            THEN ret.checklists = <<BuiltInDocument>>
            ELSE ret.checklists =
                     [i \in 1..Len(readable) |-> DocumentOf(readable[i], readable[i])]

(***************************************************************************)
(* C7 amended: as stated, except that a document is labelled with the      *)
(* reference string with its surrounding whitespace trimmed, which is also *)
(* the path that is read.                                                  *)
(***************************************************************************)
C7_ChecklistAggregation ==
    Aggregated =>
        LET readable == SelectSeq(call.checklistFiles, ReadableReference)
        IN  /\ IF call.checklistFiles = <<>>
               THEN ret.checklists = <<BuiltInDocument>>
               ELSE ret.checklists =
                        [i \in 1..Len(readable) |->
                            DocumentOf(readable[i],
                                       SubSeq(readable[i],
                                              LeadingWhiteSpace(readable[i]) + 1,
                                              Len(readable[i])
                                                  - TrailingWhiteSpace(readable[i])))]
            /\ \A i \in 1..Len(ret.checklists) :
                   Len(ret.checklists[i].content.text) <= 20000

\* an unreadable reference was skipped and the one after it, padded with
\* blanks or over the cap, gave a document
C7_Witness ==
    /\ Aggregated
    /\ Len(call.checklistFiles) = 2
    /\ ~ReadableReference(call.checklistFiles[1])
    /\ ReadableReference(call.checklistFiles[2])
    /\ Len(ret.checklists) = 1
    /\ \/ ret.checklists[1].content.truncated
       \/ ret.checklists[1].label # call.checklistFiles[2]

(***************************************************************************)
(* Claims about one invocation of the reviewer handler (Spec).             *)
(***************************************************************************)
Blank(t) == \A i \in 1..Len(t) : t[i] \in WhiteSpace
Pos(seq, x) == CHOOSE i \in 1..Len(seq) : seq[i] = x
Filtering == filteredDiff # None

\* C8: the review request is sent only if the filtered diff has a character
\* that is not white space; when the filtered diff is empty or blank the
\* invocation ends with an informational message, and no request is sent,
\* no checklist is read and no report is written.
C8_ReviewOnlyWithContent ==
    /\ ("sendRequest" \in Range(events) \/ requests # <<>>)
           => (Filtering /\ ~Blank(filteredDiff.text))
    /\ (Filtering /\ Blank(filteredDiff.text))
           => /\ "sendRequest" \notin Range(events)
              /\ "readChecklist" \notin Range(events)
              /\ "writeReport" \notin Range(events)
              /\ requests = <<>> /\ reports = <<>> /\ checklistDocs = <<>>
              /\ pc \in {"awaitManifest", "done"}
              /\ pc = "done"
                     => /\ outcome = "NoContent"
                        /\ stream[Len(stream)].msg
                               \in {"allChangesExcluded", "noDiffDetected"}

\* C8 witness: an invocation that ended without a request because every
\* changed file was excluded
C8_Witness ==
    /\ pc = "done" /\ outcome = "NoContent"
    /\ Filtering /\ Len(filteredDiff.excludedFiles) > 0
    /\ requests = <<>>

\* C9: an invocation that ends Completed has sent exactly two requests to
\* the engine, a Preparation request and then a Review request.
C9_TwoRequestsWhenCompleted ==
    outcome = "Completed"
        => /\ Count(events, "sendRequest") = 2
           /\ Len(requests) = 2

\* C10: once extraction has succeeded the manifest write has been attempted
\* exactly once, after filtering and before any request to the engine, with
\* allFiles, includedFiles and excludedFiles those of the filter result;
\* this holds when the invocation stops on an empty diff (the manifest then
\* has no files and no report is written) and when the engine request fails.
C10_ManifestWrittenOnce ==
    /\ diffChunk = None => (manifests = <<>> /\ "writeManifest" \notin Range(events))
    /\ diffChunk # None
           => /\ Filtering
              /\ Count(events, "writeManifest") = 1
              /\ Len(manifests) = 1
              /\ manifests[1].allFiles = filteredDiff.allFiles
              /\ manifests[1].includedFiles = filteredDiff.includedFiles
              /\ manifests[1].excludedFiles = filteredDiff.excludedFiles
              /\ Pos(events, "gitDiff") < Pos(events, "writeManifest")
              /\ Pos(events, "gitDiffNameOnly") < Pos(events, "writeManifest")
              /\ \A i \in 1..Len(events) :
                     events[i] \in {"sendRequest", "readChecklist", "writeReport"}
                         => Pos(events, "writeManifest") < i
              /\ pc = "awaitManifest"
                     => /\ filteredDiff = filterDiffByPaths(diffChunk.text, WorkspacePath,
                                                            config.excludePaths, diffFiles)
                        /\ (diffChunk.text = <<>> /\ diffFiles = <<>>)
                               => manifests[1].allFiles = <<>>
              /\ outcome = "NoContent"
                     => (reports = <<>> /\ "writeReport" \notin Range(events))

\* C10 witness: the engine request failed after a manifest that records an
\* excluded and an included file
C10_Witness ==
    /\ pc = "done" /\ outcome = "EngineRequestFailure"
    /\ Len(manifests) = 1
    /\ Len(manifests[1].excludedFiles) > 0
    /\ manifests[1].includedFiles # manifests[1].allFiles

\* C11: the report is written only after the response stream has ended
\* normally, on the way to outcome Completed; when sendRequest rejects or the
\* stream breaks at any fragment no report is written, the text received so
\* far is dropped, the error is shown with its text, and no further request
\* is sent.
C11_ReportOnlyWhenCompleted ==
    /\ ("writeReport" \in Range(events) \/ reports # <<>>)
           => /\ pc \in {"awaitReport", "done"}
              /\ pc = "done" => outcome = "Completed"
              /\ Count(events, "writeReport") = 1
              /\ reports = <<htmlContent>>
              /\ \A i \in 1..Len(stream) : stream[i].msg # "reviewFailed"
    /\ outcome = "Completed" => Count(events, "writeReport") = 1
    /\ outcome = "EngineRequestFailure"
           => /\ pc = "done"
              /\ reports = <<>> /\ "writeReport" \notin Range(events)
              /\ stream[Len(stream)] = [msg |-> "reviewFailed", error |-> EngineMessage]
              /\ Count(events, "sendRequest") = 1 /\ Len(requests) = 1

\* C11 witness: the stream broke after a fragment had been received
C11_Witness ==
    /\ pc = "done" /\ outcome = "EngineRequestFailure"
    /\ htmlContent # <<>>
    /\ reports = <<>>

\* C12: once the cancellation signal has been raised the invocation starts
\* no artifact write (manifest or report) and sends no request.
C12_NothingAfterCancellation ==
    \A i \in 1..Len(events) : \A j \in 1..Len(events) :
        (events[i] = "cancellationRequested" /\ i < j)
            => events[j] \notin {"writeManifest", "writeReport", "sendRequest"}

\* the review answer as far as it has been shown in the chat
RECURSIVE ShownAnswer(_)
ShownAnswer(shown) ==
    IF shown = <<>> THEN <<>>
    ELSE (IF Head(shown).msg = "fragment" THEN Head(shown).text ELSE <<>>)
             \o ShownAnswer(Tail(shown))

\* C13: whenever the report write is attempted, every fragment of the review
\* answer has already been shown in the user's chat response.
C13_AnswerShownBeforeReport ==
    "writeReport" \in Range(events) => ShownAnswer(stream) = htmlContent

\* C14: every failed artifact write, of the manifest as well as of the
\* report, has put a warning into the chat response of the invocation.
C14_FailedWriteShown ==
    /\ "writeManifestFailed" \in Range(events)
           => \E i \in 1..Len(stream) : stream[i].msg = "manifestSaveFailed"
    /\ "writeReportFailed" \in Range(events)
           => \E i \in 1..Len(stream) : stream[i].msg = "reportSaveFailed"

VcsFailed ==
    "gitDiffFailed" \in Range(events) \/ "gitDiffNameOnlyFailed" \in Range(events)

\* C15: when the diff command or the name-only command fails, whichever it
\* is and whatever the other returned, the invocation shows a message with
\* the underlying error text and ends without a manifest, a checklist read,
\* a request or a report; a command that succeeds with empty output is not
\* such a failure.
C15_VcsFailureEndsInvocation ==
    /\ VcsFailed
           => /\ pc = "done" /\ outcome = "ExtractionFailure"
              /\ stream[Len(stream)].msg = "error"
              /\ stream[Len(stream)].error.message = ExecMessage
              /\ \/ /\ stream[Len(stream)].error.prefix = "gitDiff"
                    /\ "gitDiffFailed" \in Range(events)
                 \/ /\ stream[Len(stream)].error.prefix = "gitDiffFileList"
                    /\ "gitDiffNameOnlyFailed" \in Range(events)
              /\ Range(events) \cap {"writeManifest", "readChecklist", "sendRequest",
                                     "writeReport"} = {}
              /\ manifests = <<>> /\ requests = <<>> /\ reports = <<>>
              /\ checklistDocs = <<>>
    /\ outcome = "ExtractionFailure" => VcsFailed
    /\ (diffChunk # None /\ diffChunk.text = <<>> /\ diffFiles = <<>>)
           => (~VcsFailed /\ Count(events, "writeManifest") = 1)

\* C15 witness: only the name-only command failed
C15_Witness ==
    /\ pc = "done" /\ outcome = "ExtractionFailure"
    /\ "gitDiffNameOnlyFailed" \in Range(events)
    /\ "gitDiffFailed" \notin Range(events)

\* how far the handler has come: before its first statement, waiting for the
\* git commands, for the manifest write, for the checklists, for sendRequest,
\* for the stream, for the report write, returned
Progress(at) ==
    CASE at = "start" -> 0
      [] at = "awaitGit" -> 1
      [] at = "awaitManifest" -> 2
      [] at = "awaitChecklists" -> 3
      [] at = "awaitSend" -> 4
      [] at = "streaming" -> 5
      [] at = "awaitReport" -> 6
      [] at = "done" -> 7

\* C16: an invocation only moves forward (INIT: start; PREPARING: the git
\* commands, the filter and the manifest; PREPARED: the checklists;
\* REVIEWING: request, stream and report; DONE or FAILED: returned), never
\* enters a state twice, does nothing once it has returned, fails only while
\* preparing or reviewing, and attempts each external operation at most once,
\* also after it failed.
C16_SingleForwardPass ==
    [][ /\ pc # "done"
        /\ Progress(pc') >= Progress(pc)
        /\ pc' = pc => pc = "streaming" \/ events' # events
        /\ outcome' # outcome
               => /\ outcome = "none" /\ pc' = "done"
                  /\ outcome' = "ConfigurationMissing" => pc = "start"
                  /\ outcome' = "ExtractionFailure" => pc = "awaitGit"
                  /\ outcome' = "NoContent" => pc = "awaitManifest"
                  /\ outcome' = "EngineRequestFailure" => pc \in {"awaitSend", "streaming"}
                  /\ outcome' = "Completed" => pc = "awaitReport"
        /\ \A op \in {"gitDiff", "gitDiffNameOnly", "writeManifest", "sendRequest",
                      "writeReport"} : Count(events', op) <= 1
        /\ config' # None
               => Count(events', "readChecklist") <= Len(config'.checklistFiles)
        /\ Len(manifests') <= 1 /\ Len(requests') <= 1 /\ Len(reports') <= 1
      ]_vars

\* C16 witness: one full pass, with checklists read and a failed report
\* write at its end
C16_Witness ==
    /\ pc = "done" /\ outcome = "Completed"
    /\ "readChecklist" \in Range(events)
    /\ "writeReportFailed" \in Range(events)
    /\ "writeManifestFailed" \in Range(events)

\* where the sections of one kind stand in a message
Where(sections, kind) == {i \in 1..Len(sections) : sections[i].s = kind}
ChecklistKinds == {"checklistIntro", "checklistLabel", "checklist", "checklistTruncated"}
GuidelineKinds == {"cppIntro", "CPP_REVIEW_GUIDELINES"}

\* the diff is in the message once and whole, and every checklist document
\* follows it, in order, under its label and with its caveat when truncated
DiffThenChecklists(sections) ==
    /\ Cardinality(Where(sections, "diff")) = 1
    /\ \A d \in Where(sections, "diff") :
           /\ sections[d].text = filteredDiff.text
           /\ \A kind \in ChecklistKinds : \A i \in Where(sections, kind) : d < i
    /\ SelectSeq(sections, LAMBDA x : x.s = "checklistLabel")
           = [k \in 1..Len(checklistDocs) |->
                  [s |-> "checklistLabel", label |-> checklistDocs[k].label]]
    /\ SelectSeq(sections, LAMBDA x : x.s = "checklist")
           = [k \in 1..Len(checklistDocs) |->
                  [s |-> "checklist", text |-> checklistDocs[k].content.text]]
    /\ \A i \in Where(sections, "checklist") :
           /\ sections[i - 2].s = "checklistLabel"
           /\ LET k == Cardinality({j \in Where(sections, "checklist") : j <= i})
              IN  checklistDocs[k].content.truncated
                      <=> (i + 2 <= Len(sections) /\ sections[i + 2].s = "checklistTruncated")
    /\ Cardinality(Where(sections, "outputFormat")) = 1
    /\ \A f \in Where(sections, "outputFormat") :
           \A kind \in ChecklistKinds \cup GuidelineKinds \cup {"diff"} :
               \A i \in Where(sections, kind) : i < f

\* the guideline block is in the message exactly when the prepared diff
\* adds or changes a C++ file
GuidelinesWhenSelected(sections) ==
    Cardinality(Where(sections, "CPP_REVIEW_GUIDELINES"))
        = (IF diffContainsCppChanges(filteredDiff.text) THEN 1 ELSE 0)

\* C17 as stated: the diff, then the checklist documents, then the guideline
\* block when selected, then the output format.
C17_Original ==
    \A r \in 1..Len(requests) :
        /\ DiffThenChecklists(requests[r].sections)
        /\ GuidelinesWhenSelected(requests[r].sections)
        /\ \A g \in Where(requests[r].sections, "CPP_REVIEW_GUIDELINES") :
               \A kind \in ChecklistKinds \cup {"diff"} :
                   \A i \in Where(requests[r].sections, kind) : i < g

\* C17: the guideline block when selected, then the diff, whole and once,
\* then the checklist documents in order, each with its label and, when
\* truncated, its caveat, then the output format.
C17_MessageOrder ==
    \A r \in 1..Len(requests) :
        /\ DiffThenChecklists(requests[r].sections)
        /\ GuidelinesWhenSelected(requests[r].sections)
        /\ \A g \in Where(requests[r].sections, "CPP_REVIEW_GUIDELINES") :
               \A d \in Where(requests[r].sections, "diff") : g < d

\* C17 witness: a request with the guideline block and a truncated checklist
C17_Witness ==
    /\ Len(requests) = 1
    /\ Where(requests[1].sections, "CPP_REVIEW_GUIDELINES") # {}
    /\ Where(requests[1].sections, "checklistTruncated") # {}
    /\ Len(checklistDocs) = 2

\* the texts of the segments that match no rule, one after the other
KeptText(t, rules) ==
    LET kept == SelectSeq(Segments(t), LAMBDA sg : ~MatchesRule(sg.filePath, rules))
    IN  Join([i \in 1..Len(kept) |-> kept[i].text], <<>>)

WithPreamble ==
    /\ Filtered
    /\ LET preamble == Preamble(call.diffText)
       IN  preamble # <<>> /\ preamble # call.diffText

\* C18 as stated: on a diff with a header and a preamble, the preamble opens
\* the output when the rule set is empty and is left out of it when the rule
\* set is not empty.
C18_Original ==
    WithPreamble =>
        LET rules == RulesOf(call)
        IN  /\ rules = {} => IsPrefix(Preamble(call.diffText), ret.text)
            /\ rules # {} => ret.text = KeptText(call.diffText, rules)

\* C18: on a diff with a header and a preamble, the preamble opens the
\* output whether the rule set is empty or not; with rules, the segments
\* that match none follow it.
C18_PreambleKept ==
    WithPreamble =>
        LET rules == RulesOf(call)
            preamble == Preamble(call.diffText)
        IN  /\ IsPrefix(preamble, ret.text)
            /\ rules # {} => ret.text = preamble \o KeptText(call.diffText, rules)

\* C18 witness: rules removed a segment of a diff with a preamble
C18_Witness ==
    /\ WithPreamble
    /\ RulesOf(call) # {}
    /\ ret.text # call.diffText
    /\ IsPrefix(Preamble(call.diffText), ret.text)

\* the offset of each segment of a text: that of its header
SegmentStarts(t) ==
    LET matches == HeaderMatches(t)
    IN  [i \in 1..Len(matches) |-> matches[i].index]

NoSegmentMatches ==
    LET segs == Segments(call.diffText)
        rules == RulesOf(call)
    IN  \A i \in 1..Len(segs) : ~MatchesRule(segs[i].filePath, rules)

\* C20: the segments of a diff text lie one after the other without gap or
\* overlap, each from a header's offset to the next header's offset (the end
\* of the text for the last); the preamble followed by all segments is the
\* text; and a filter whose rules are not empty and match no segment returns
\* its input.
C20_SegmentsTileTheText ==
    Filtered =>
        LET t == call.diffText
            segs == Segments(t)
            starts == SegmentStarts(t)
            preamble == Preamble(t)
        IN  /\ \A i \in 1..Len(segs) :
                   /\ Len(segs[i].text) >= 1
                   /\ IsPrefix(HeaderPrefix, segs[i].text)
                   /\ segs[i].text = SubSeq(t, starts[i], starts[i] + Len(segs[i].text) - 1)
                   /\ starts[i] + Len(segs[i].text)
                          = (IF i < Len(segs) THEN starts[i + 1] ELSE Len(t) + 1)
            /\ Len(segs) >= 1 => Len(preamble) = starts[1] - 1
            /\ preamble \o Join([i \in 1..Len(segs) |-> segs[i].text], <<>>) = t
            /\ (RulesOf(call) # {} /\ NoSegmentMatches) => ret.text = t

\* C20 witness: rules that match neither of two segments behind a preamble
C20_Witness ==
    /\ Filtered
    /\ RulesOf(call) # {} /\ NoSegmentMatches
    /\ Len(Segments(call.diffText)) >= 2
    /\ Preamble(call.diffText) # <<>>
    /\ ret.text = call.diffText

BothNamed(names) == names[1] # <<>> /\ names[2] # <<>>

\* C19 as stated: the manifest names of two invocations differ and their
\* report names differ, also when both are taken in the same millisecond.
C19_Original ==
    call.fn = "fileNames" =>
        /\ BothNamed(ret.manifests) => ret.manifests[1] # ret.manifests[2]
        /\ BothNamed(ret.reports) => ret.reports[1] # ret.reports[2]

\* C19: the manifest names of two invocations differ exactly when the two
\* were named in different milliseconds, and so do their report names.
C19_NamesDifferAcrossMilliseconds ==
    call.fn = "fileNames" =>
        /\ BothNamed(ret.manifests)
               => (ret.manifests[1] # ret.manifests[2]
                       <=> call.manifestAt[1] # call.manifestAt[2])
        /\ BothNamed(ret.reports)
               => (ret.reports[1] # ret.reports[2]
                       <=> call.reportAt[1] # call.reportAt[2])

\* C19 witness: two invocations that named their manifests in different
\* milliseconds and their reports in the same one
C19_Witness ==
    /\ call.fn = "fileNames"
    /\ BothNamed(ret.manifests) /\ BothNamed(ret.reports)
    /\ call.manifestAt[1] # call.manifestAt[2]
    /\ call.reportAt[1] = call.reportAt[2]
    /\ ret.reports[1] = ret.reports[2]

\* C21: when an invocation stops on an empty prepared diff, the message
\* "all changes match excludePaths" is shown only if a rule excluded at least
\* one changed file, and when git reported no change at all the message is
\* "no diff detected", whatever the excludePaths setting holds.
C21_EmptyDiffMessage ==
    (pc = "done" /\ outcome = "NoContent") =>
        LET shown == stream[Len(stream)].msg
        IN  /\ shown \in {"allChangesExcluded", "noDiffDetected"}
            /\ shown = "allChangesExcluded" => Len(filteredDiff.excludedFiles) > 0
            /\ (filteredDiff.allFiles = <<>> /\ filteredDiff.text = <<>>)
                   => shown = "noDiffDetected"

=============================================================================
